---- MODULE Spec2Model ----
(***************************************************************************)
(* Poker leaderboard server: the game-recording handler (src/api/game.js), *)
(* the cached store connection and the leaderboard materializer            *)
(* (src/lib/mongodb.js).  Every await of the handler is one action: the    *)
(* store operation takes effect and the handler runs on to its next await. *)
(* Several handlers run interleaved at their awaits, as on one Node event  *)
(* loop.  Every store operation may fail (StoreUnavailable).               *)
(***************************************************************************)
EXTENDS Integers, Sequences, FiniteSets, TLC

\* ---------------------------------------------------------------- bounds
MaxGames == 2        \* number of requests received over one run
MaxFailures == 1     \* number of store operations that fail over one run
MaxSessions == 52     \* number of Sessions in a listed store

\* Handler invocations that may be in flight at the same time.
Handlers == {"h1", "h2"}

\* ---------------------------------------------------------------- inputs
Methods == {"OPTIONS", "GET", "POST"}
Names == {"", "Alice", "Bob"}
ResultValues == {"", "win", "loss", "draw"}
\* amount: a negative one, zero (falsy) and two positive ones.
Amounts == (0 - 1)..2
GameTypes == {"", "holdem"}

\* req.body of a POST; a missing field and an empty one are both falsy.
Bodies == [playerName : Names, result : ResultValues,
           amount : Amounts, gameType : GameTypes]

NoBody == [playerName |-> "", result |-> "", amount |-> 0, gameType |-> ""]
NoRequest == [method |-> "none", body |-> NoBody]
NoPlayer == [absent |-> TRUE]

VARIABLES
    Players,        \* collection "Players", in insertion order
    Sessions,       \* collection "Sessions", in insertion order
    Leaderboard,    \* collection "Leaderboard", in insertion order
    cachedClient,   \* module variable of lib/mongodb.js (0 is null)
    cachedDb,       \* module variable of lib/mongodb.js (0 is null)
    clients,        \* number of MongoClient objects constructed so far
    clock,          \* wall clock read by new Date()
    games,          \* number of requests received so far
    failures,       \* number of store operations that failed so far
    pc,             \* per handler: the await it is suspended at
    req,            \* per handler: method and body of its request
    player,         \* per handler: local `player`
    client,         \* per handler: local `client` of connectToDatabase
    now,            \* per handler: local `now`
    leaderboardData,\* per handler: local `leaderboardData`
    status,         \* per handler: HTTP status sent (0: none yet)
    responses,      \* per handler: number of responses sent
    okOps,          \* per handler: store operations that returned
    err,            \* per handler: the operation whose error was logged
    sessionsResponse \* GET /api/sessions: status sent and its `sessions`

vars == <<Players, Sessions, Leaderboard, cachedClient, cachedDb, clients,
          clock, games, failures, pc, req, player, client, now, leaderboardData,
          status, responses, okOps, err, sessionsResponse>>

store == <<Players, Sessions, Leaderboard>>
conn == <<cachedClient, cachedDb, clients>>

\* ------------------------------------------------------- pure functions
Max(a, b) == IF a >= b THEN a ELSE b

Abs(a) == IF a < 0 THEN 0 - a ELSE a

RECURSIVE Gcd(_, _)
Gcd(a, b) == IF b = 0 THEN a ELSE Gcd(b, a % b)

\* Exact quotient n/d (d > 0) as a reduced fraction.
Frac(n, d) ==
    LET g == Gcd(Abs(n), d)
    IN  [num |-> n \div g, den |-> d \div g]

Zero == [num |-> 0, den |-> 1]

\* The presence check without its gameType operand.
InvalidIgnoresGameType(body) ==
    \/ body.playerName = ""
    \/ body.result = ""
    \/ body.amount = 0

\* !playerName || !result || !amount || !gameType
Invalid(body) ==
    \/ body.playerName = ""
    \/ body.result = ""
    \/ body.amount = 0
    \/ body.gameType = ""

\* The amount taken unsigned, whatever the result.
GameAmountUnsigned(body) == body.amount

\* const gameAmount = result === "win" ? amount : -amount
GameAmount(body) ==
    IF body.result = "win" THEN body.amount ELSE 0 - body.amount

\* The fresh record of a name not yet in the store.
NewPlayer(name, id) ==
    [id |-> id, name |-> name, totalWinnings |-> 0, gamesPlayed |-> 0,
     wins |-> 0, losses |-> 0, biggestWin |-> 0, totalWon |-> 0,
     totalLost |-> 0]

\* updateData with biggestWin overwritten by the amount instead of Math.max.
UpdateDataOverwritesBiggestWin(p, body) ==
    LET base == [totalWinnings |-> p.totalWinnings + GameAmount(body),
                 gamesPlayed |-> p.gamesPlayed + 1]
    IN  IF body.result = "win"
        THEN [f \in {"totalWinnings", "gamesPlayed", "wins", "totalWon",
                     "biggestWin"} |->
                CASE f = "wins" -> p.wins + 1
                  [] f = "totalWon" -> p.totalWon + body.amount
                  [] f = "biggestWin" -> body.amount
                  [] OTHER -> base[f]]
        ELSE [f \in {"totalWinnings", "gamesPlayed", "losses",
                     "totalLost"} |->
                CASE f = "losses" -> p.losses + 1
                  [] f = "totalLost" -> p.totalLost + body.amount
                  [] OTHER -> base[f]]

\* updateData with the loss branch taken only for result === "loss".
UpdateDataLossOnly(p, body) ==
    LET base == [totalWinnings |-> p.totalWinnings + GameAmount(body),
                 gamesPlayed |-> p.gamesPlayed + 1]
    IN  IF body.result = "win"
        THEN [f \in {"totalWinnings", "gamesPlayed", "wins", "totalWon",
                     "biggestWin"} |->
                CASE f = "wins" -> p.wins + 1
                  [] f = "totalWon" -> p.totalWon + body.amount
                  [] f = "biggestWin" -> Max(p.biggestWin, body.amount)
                  [] OTHER -> base[f]]
        ELSE IF body.result = "loss"
        THEN [f \in {"totalWinnings", "gamesPlayed", "losses",
                     "totalLost"} |->
                CASE f = "losses" -> p.losses + 1
                  [] f = "totalLost" -> p.totalLost + body.amount
                  [] OTHER -> base[f]]
        ELSE base

\* updateData: the fields the handler $set-s, computed from its local player.
UpdateData(p, body) ==
    LET base == [totalWinnings |-> p.totalWinnings + GameAmount(body),
                 gamesPlayed |-> p.gamesPlayed + 1]
    IN  IF body.result = "win"
        THEN [f \in {"totalWinnings", "gamesPlayed", "wins", "totalWon",
                     "biggestWin"} |->
                CASE f = "wins" -> p.wins + 1
                  [] f = "totalWon" -> p.totalWon + body.amount
                  [] f = "biggestWin" -> Max(p.biggestWin, body.amount)
                  [] OTHER -> base[f]]
        ELSE [f \in {"totalWinnings", "gamesPlayed", "losses",
                     "totalLost"} |->
                CASE f = "losses" -> p.losses + 1
                  [] f = "totalLost" -> p.totalLost + body.amount
                  [] OTHER -> base[f]]

\* $set: the named fields are replaced, every other field is kept.
SetFields(doc, upd) ==
    [f \in DOMAIN doc |-> IF f \in DOMAIN upd THEN upd[f] ELSE doc[f]]

\* An update with an empty filter: every record of the collection is set.
UpdateEvery(coll, id, upd) ==
    [i \in 1..Len(coll) |-> SetFields(coll[i], upd)]

\* updateOne({_id: id}, {$set: upd}) on a collection.
UpdateOneById(coll, id, upd) ==
    [i \in 1..Len(coll) |->
        IF coll[i].id = id /\ \A j \in 1..(i - 1) : coll[j].id # id
        THEN SetFields(coll[i], upd) ELSE coll[i]]

\* findOne({name: n}): the first match in natural order, or absent.
FindOneByName(coll, n) ==
    IF \E i \in 1..Len(coll) : coll[i].name = n
    THEN coll[CHOOSE i \in 1..Len(coll) :
                /\ coll[i].name = n
                /\ \A j \in 1..(i - 1) : coll[j].name # n]
    ELSE NoPlayer

\* The insertion step of a sort that puts a record before its equals.
RECURSIVE InsertSortedBeforeEquals(_, _)
InsertSortedBeforeEquals(sorted, p) ==
    IF sorted = <<>> THEN <<p>>
    ELSE IF Head(sorted).totalWinnings > p.totalWinnings
         THEN <<Head(sorted)>> \o InsertSortedBeforeEquals(Tail(sorted), p)
         ELSE <<p>> \o sorted

\* Array.prototype.sort with (a, b) => b.totalWinnings - a.totalWinnings:
\* descending, stable.
RECURSIVE InsertSorted(_, _)
InsertSorted(sorted, p) ==
    IF sorted = <<>> THEN <<p>>
    ELSE IF Head(sorted).totalWinnings >= p.totalWinnings
         THEN <<Head(sorted)>> \o InsertSorted(Tail(sorted), p)
         ELSE <<p>> \o sorted

RECURSIVE SortPlayers(_)
SortPlayers(ps) ==
    IF ps = <<>> THEN <<>>
    ELSE InsertSorted(SortPlayers(SubSeq(ps, 1, Len(ps) - 1)), ps[Len(ps)])

\* An entry whose winRate is the ratio of wins, not the percentage.
EntryRatio(p, index) ==
    [id |-> p.id, name |-> p.name, totalWinnings |-> p.totalWinnings,
     gamesPlayed |-> p.gamesPlayed, wins |-> p.wins, losses |-> p.losses,
     biggestWin |-> p.biggestWin, totalWon |-> p.totalWon,
     totalLost |-> p.totalLost,
     rank |-> index + 1,
     winRate |-> IF p.gamesPlayed > 0
                 THEN Frac(p.wins, p.gamesPlayed) ELSE Zero,
     avgWin |-> IF p.wins > 0 THEN Frac(p.totalWon, p.wins) ELSE Zero]

\* One leaderboard entry: the player's fields plus rank, winRate, avgWin.
Entry(p, index) ==
    [id |-> p.id, name |-> p.name, totalWinnings |-> p.totalWinnings,
     gamesPlayed |-> p.gamesPlayed, wins |-> p.wins, losses |-> p.losses,
     biggestWin |-> p.biggestWin, totalWon |-> p.totalWon,
     totalLost |-> p.totalLost,
     rank |-> index + 1,
     winRate |-> IF p.gamesPlayed > 0
                 THEN Frac(p.wins * 100, p.gamesPlayed) ELSE Zero,
     avgWin |-> IF p.wins > 0 THEN Frac(p.totalWon, p.wins) ELSE Zero]

\* players.sort(...).map((player, index) => ...)
Materialize(ps) ==
    LET sorted == SortPlayers(ps)
    IN  [i \in 1..Len(sorted) |-> Entry(sorted[i], i - 1)]

\* insertMany (ordered): documents are written in order up to the first one
\* whose _id is already in the collection; that one raises a duplicate key.
RECURSIVE InsertManyOrdered(_, _)
InsertManyOrdered(coll, docs) ==
    IF docs = <<>> THEN coll
    ELSE IF \E i \in 1..Len(coll) : coll[i].id = Head(docs).id
         THEN coll
         ELSE InsertManyOrdered(Append(coll, Head(docs)), Tail(docs))

DuplicateKey(coll, docs) ==
    \/ \E i \in 1..Len(coll), j \in 1..Len(docs) : coll[i].id = docs[j].id
    \/ \E j, k \in 1..Len(docs) : j # k /\ docs[j].id = docs[k].id

\* No answer of GET /api/sessions yet.
NoSessionsResponse == [status |-> 0, body |-> <<>>]

\* .limit(50)
SessionLimit == 50

\* The insertion step of a sort by createdAt ascending.
RECURSIVE InsertByCreatedAtAscending(_, _, _)
InsertByCreatedAtAscending(sorted, s, ties) ==
    IF sorted = <<>> THEN <<s>>
    ELSE IF \/ Head(sorted).createdAt < s.createdAt
            \/ ties /\ Head(sorted).createdAt = s.createdAt
         THEN <<Head(sorted)>>
                  \o InsertByCreatedAtAscending(Tail(sorted), s, ties)
         ELSE <<s>> \o sorted

\* .sort({createdAt: -1}): descending by createdAt. The store does not fix
\* the order of documents with equal createdAt: `ties` tells whether they
\* come out in insertion order or in the reverse of it.
RECURSIVE InsertByCreatedAt(_, _, _)
InsertByCreatedAt(sorted, s, ties) ==
    IF sorted = <<>> THEN <<s>>
    ELSE IF \/ Head(sorted).createdAt > s.createdAt
            \/ ties /\ Head(sorted).createdAt = s.createdAt
         THEN <<Head(sorted)>> \o InsertByCreatedAt(Tail(sorted), s, ties)
         ELSE <<s>> \o sorted

RECURSIVE SortByCreatedAt(_, _)
SortByCreatedAt(log, ties) ==
    IF log = <<>> THEN <<>>
    ELSE InsertByCreatedAt(SortByCreatedAt(SubSeq(log, 1, Len(log) - 1),
                                           ties),
                           log[Len(log)], ties)

\* .limit(n)
Limit(seq, n) == SubSeq(seq, 1, IF Len(seq) < n THEN Len(seq) ELSE n)

\* ------------------------------------------------------------- initial
Init ==
    /\ Players = <<>>
    /\ Sessions = <<>>
    /\ Leaderboard = <<>>
    /\ cachedClient = 0
    /\ cachedDb = 0
    /\ clients = 0
    /\ clock = 0
    /\ games = 0
    /\ failures = 0
    /\ pc = [h \in Handlers |-> "idle"]
    /\ req = [h \in Handlers |-> NoRequest]
    /\ player = [h \in Handlers |-> NoPlayer]
    /\ client = [h \in Handlers |-> 0]
    /\ now = [h \in Handlers |-> 0]
    /\ leaderboardData = [h \in Handlers |-> <<>>]
    /\ status = [h \in Handlers |-> 0]
    /\ responses = [h \in Handlers |-> 0]
    /\ okOps = [h \in Handlers |-> {}]
    /\ err = [h \in Handlers |-> "none"]
    /\ sessionsResponse = NoSessionsResponse


\* ------------------------------------------------------------- helpers
Busy(h) == pc[h] \notin {"idle", "done"}

\* A response after which the handler goes on and answers once more.
RespondAgain(h, code) ==
    /\ status' = [status EXCEPT ![h] = code]
    /\ responses' = [responses EXCEPT ![h] = @ + 2]
    /\ pc' = [pc EXCEPT ![h] = "done"]
    /\ req' = [req EXCEPT ![h] = NoRequest]
    /\ now' = [now EXCEPT ![h] = 0]
    /\ player' = [player EXCEPT ![h] = NoPlayer]
    /\ client' = [client EXCEPT ![h] = 0]
    /\ leaderboardData' = [leaderboardData EXCEPT ![h] = <<>>]

\* res.status(code).json(...) / .end(): the handler returns; its locals die.
Respond(h, code) ==
    /\ status' = [status EXCEPT ![h] = code]
    /\ responses' = [responses EXCEPT ![h] = @ + 1]
    /\ pc' = [pc EXCEPT ![h] = "done"]
    /\ req' = [req EXCEPT ![h] = NoRequest]
    /\ now' = [now EXCEPT ![h] = 0]
    /\ player' = [player EXCEPT ![h] = NoPlayer]
    /\ client' = [client EXCEPT ![h] = 0]
    /\ leaderboardData' = [leaderboardData EXCEPT ![h] = <<>>]

\* A catch that logs the error and still answers success.
CatchAnswersSuccess(h, op) ==
    /\ failures < MaxFailures
    /\ failures' = failures + 1
    /\ err' = [err EXCEPT ![h] = op]
    /\ Respond(h, 200)

\* catch (error) of the handler: log the error, answer 500.
Catch(h, op) ==
    /\ failures < MaxFailures
    /\ failures' = failures + 1
    /\ err' = [err EXCEPT ![h] = op]
    /\ Respond(h, 500)

\* updateLeaderboard without its try/catch: the error reaches the handler's
\* catch and the request is answered 500.
SwallowPropagates(h, op) ==
    /\ failures < MaxFailures
    /\ failures' = failures + 1
    /\ err' = [err EXCEPT ![h] = op]
    /\ Respond(h, 500)

\* catch (error) of updateLeaderboard: log only; the handler then answers 200.
Swallow(h, op) ==
    /\ failures < MaxFailures
    /\ failures' = failures + 1
    /\ err' = [err EXCEPT ![h] = op]
    /\ Respond(h, 200)

Returned(h, op) == okOps' = [okOps EXCEPT ![h] = @ \cup {op}]

\* Continuation after `await connectToDatabase()`: const now = new Date(),
\* then Players.findOne is issued.
ToFindOne(h) ==
    /\ clock' = clock + 1
    /\ now' = [now EXCEPT ![h] = clock + 1]
    /\ pc' = [pc EXCEPT ![h] = "findOne"]

\* ------------------------------------------------------------- actions
\* A request reaches the server: its method and parsed body are handed to
\* the handler.
ArriveWithin(h, m, b, limit) ==
    /\ ~Busy(h)
    /\ games < limit
    /\ games' = games + 1
    /\ req' = [req EXCEPT ![h] = [method |-> m, body |-> b]]
    /\ pc' = [pc EXCEPT ![h] = "received"]
    /\ status' = [status EXCEPT ![h] = 0]
    /\ responses' = [responses EXCEPT ![h] = 0]
    /\ okOps' = [okOps EXCEPT ![h] = {}]
    /\ err' = [err EXCEPT ![h] = "none"]
    /\ UNCHANGED <<store, conn, clock, failures, player, client, now,
                   leaderboardData>>
    /\ UNCHANGED sessionsResponse

Arrive(h, m, b) == ArriveWithin(h, m, b, MaxGames)

\* The handler runs to its first await: method check, validation, and the
\* synchronous head of connectToDatabase.
Handler(h) ==
    /\ pc[h] = "received"
    /\ UNCHANGED <<store, cachedClient, cachedDb, games, failures, okOps,
                   err>>
    /\ IF req[h].method = "OPTIONS"
       THEN /\ Respond(h, 200)
            /\ UNCHANGED <<clients, clock>>
       ELSE IF req[h].method # "POST"
       THEN /\ Respond(h, 405)
            /\ UNCHANGED <<clients, clock>>
       ELSE IF Invalid(req[h].body)
       THEN /\ Respond(h, 400)
            /\ UNCHANGED <<clients, clock>>
       ELSE /\ UNCHANGED <<req, status, responses>>
            /\ IF cachedClient # 0 /\ cachedDb # 0
               THEN /\ ToFindOne(h)
                    /\ UNCHANGED <<clients, player, client, leaderboardData>>
               ELSE /\ clients' = clients + 1
                    /\ client' = [client EXCEPT ![h] = clients + 1]
                    /\ pc' = [pc EXCEPT ![h] = "connect"]
                    /\ UNCHANGED <<clock, player, now, leaderboardData>>
    /\ UNCHANGED sessionsResponse

\* await client.connect() returns: the caches are set.
ConnectOk(h) ==
    /\ pc[h] = "connect"
    /\ cachedClient' = client[h]
    /\ cachedDb' = client[h]
    /\ Returned(h, "connect")
    /\ ToFindOne(h)
    /\ UNCHANGED <<store, clients, games, failures, req, player, client,
                   leaderboardData, status, responses, err>>
    /\ UNCHANGED sessionsResponse

\* await client.connect() throws: rethrown, caught by the handler.
ConnectFail(h) ==
    /\ pc[h] = "connect"
    /\ Catch(h, "connect")
    /\ UNCHANGED <<store, conn, clock, games, okOps>>
    /\ UNCHANGED sessionsResponse

\* await Players.findOne({name}) returns.
FindOneOk(h) ==
    /\ pc[h] = "findOne"
    /\ LET found == FindOneByName(Players, req[h].body.playerName)
       IN  /\ player' = [player EXCEPT ![h] = found]
           /\ pc' = [pc EXCEPT ![h] =
                        IF found = NoPlayer THEN "insertOne" ELSE "updateOne"]
    /\ Returned(h, "findOne")
    /\ UNCHANGED <<store, conn, clock, games, failures, req, client, now,
                   leaderboardData, status, responses, err>>
    /\ UNCHANGED sessionsResponse

FindOneFail(h) ==
    /\ pc[h] = "findOne"
    /\ Catch(h, "findOne")
    /\ UNCHANGED <<store, conn, clock, games, okOps>>
    /\ UNCHANGED sessionsResponse

\* await Players.insertOne(player) returns; player._id = insertedId.
InsertOneOk(h) ==
    /\ pc[h] = "insertOne"
    /\ LET fresh == NewPlayer(req[h].body.playerName, Len(Players) + 1)
       IN  /\ Players' = Append(Players, fresh)
           /\ player' = [player EXCEPT ![h] = fresh]
    /\ pc' = [pc EXCEPT ![h] = "updateOne"]
    /\ Returned(h, "insertOne")
    /\ UNCHANGED <<Sessions, Leaderboard, conn, clock, games, failures, req, client,
                   now, leaderboardData, status, responses, err>>
    /\ UNCHANGED sessionsResponse

InsertOneFail(h) ==
    /\ pc[h] = "insertOne"
    /\ Catch(h, "insertOne")
    /\ UNCHANGED <<store, conn, clock, games, okOps>>
    /\ UNCHANGED sessionsResponse

\* The elements of a sequence, and the record of a collection by _id.
Range(seq) == {seq[i] : i \in 1..Len(seq)}

PlayerById(coll, id) == CHOOSE p \in Range(coll) : p.id = id

\* An update that applies the submission to the record as stored now.
UpdateOneOkOnStored(h) ==
    /\ pc[h] = "updateOne"
    /\ Players' = UpdateOneById(Players, player[h].id,
                                UpdateData(PlayerById(Players, player[h].id),
                                           req[h].body))
    /\ pc' = [pc EXCEPT ![h] = "insertSession"]
    /\ Returned(h, "updateOne")
    /\ UNCHANGED <<Sessions, Leaderboard, conn, clock, games, failures, req, player,
                   client, now, leaderboardData, status, responses, err>>
    /\ UNCHANGED sessionsResponse

\* await Players.updateOne({_id}, {$set: updateData}) returns.
UpdateOneOk(h) ==
    /\ pc[h] = "updateOne"
    /\ Players' = UpdateOneById(Players, player[h].id,
                                UpdateData(player[h], req[h].body))
    /\ pc' = [pc EXCEPT ![h] = "insertSession"]
    /\ Returned(h, "updateOne")
    /\ UNCHANGED <<Sessions, Leaderboard, conn, clock, games, failures, req, player,
                   client, now, leaderboardData, status, responses, err>>
    /\ UNCHANGED sessionsResponse

UpdateOneFail(h) ==
    /\ pc[h] = "updateOne"
    /\ Catch(h, "updateOne")
    /\ UNCHANGED <<store, conn, clock, games, okOps>>
    /\ UNCHANGED sessionsResponse

\* A session document that records the amount as submitted.
SessionWithRawAmount(h) ==
    [playerName |-> req[h].body.playerName,
     playerId |-> player[h].id,
     result |-> req[h].body.result,
     amount |-> req[h].body.amount,
     gameType |-> req[h].body.gameType,
     createdAt |-> now[h]]

\* The session document of the handler.
Session(h) ==
    [playerName |-> req[h].body.playerName,
     playerId |-> player[h].id,
     result |-> req[h].body.result,
     amount |-> GameAmount(req[h].body),
     gameType |-> req[h].body.gameType,
     createdAt |-> now[h]]

\* await Sessions.insertOne(session) returns; updateLeaderboard is entered.
InsertSessionOk(h) ==
    /\ pc[h] = "insertSession"
    /\ Sessions' = Append(Sessions, Session(h))
    /\ pc' = [pc EXCEPT ![h] = "find"]
    /\ Returned(h, "insertSession")
    /\ UNCHANGED <<Players, Leaderboard, conn, clock, games, failures, req, player,
                   client, now, leaderboardData, status, responses, err>>
    /\ UNCHANGED sessionsResponse

InsertSessionFail(h) ==
    /\ pc[h] = "insertSession"
    /\ Catch(h, "insertSession")
    /\ UNCHANGED <<store, conn, clock, games, okOps>>
    /\ UNCHANGED sessionsResponse

\* A load that numbers the ranks after the entries already stored.
FindOkAfterStored(h) ==
    /\ pc[h] = "find"
    /\ leaderboardData' =
          [leaderboardData EXCEPT ![h] =
              [i \in 1..Len(Players) |->
                  [Materialize(Players)[i] EXCEPT
                      !.rank = @ + Len(Leaderboard)]]]
    /\ pc' = [pc EXCEPT ![h] = "deleteMany"]
    /\ Returned(h, "find")
    /\ UNCHANGED <<store, conn, clock, games, failures, req, player, client, now,
                   status, responses, err>>
    /\ UNCHANGED sessionsResponse

\* updateLeaderboard: await Players.find({}).toArray() returns; the entries
\* are computed and Leaderboard.deleteMany is issued.
FindOk(h) ==
    /\ pc[h] = "find"
    /\ leaderboardData' = [leaderboardData EXCEPT ![h] = Materialize(Players)]
    /\ pc' = [pc EXCEPT ![h] = "deleteMany"]
    /\ Returned(h, "find")
    /\ UNCHANGED <<store, conn, clock, games, failures, req, player, client, now,
                   status, responses, err>>
    /\ UNCHANGED sessionsResponse

FindFail(h) ==
    /\ pc[h] = "find"
    /\ Swallow(h, "find")
    /\ UNCHANGED <<store, conn, clock, games, okOps>>
    /\ UNCHANGED sessionsResponse

\* await Leaderboard.deleteMany({}) returns.
DeleteManyOk(h) ==
    /\ pc[h] = "deleteMany"
    /\ Leaderboard' = <<>>
    /\ Returned(h, "deleteMany")
    /\ IF Len(leaderboardData[h]) > 0
       THEN /\ pc' = [pc EXCEPT ![h] = "insertMany"]
            /\ UNCHANGED <<req, now, player, client, leaderboardData,
                           status, responses>>
       ELSE Respond(h, 200)
    /\ UNCHANGED <<Players, Sessions, conn, clock, games, failures, err>>
    /\ UNCHANGED sessionsResponse

DeleteManyFail(h) ==
    /\ pc[h] = "deleteMany"
    /\ Swallow(h, "deleteMany")
    /\ UNCHANGED <<store, conn, clock, games, okOps>>
    /\ UNCHANGED sessionsResponse

\* await Leaderboard.insertMany(leaderboardData) returns, or stops at a
\* duplicate _id; either way the handler answers 200.
InsertManyOk(h) ==
    /\ pc[h] = "insertMany"
    /\ Leaderboard' = InsertManyOrdered(Leaderboard, leaderboardData[h])
    /\ IF DuplicateKey(Leaderboard, leaderboardData[h])
       THEN /\ err' = [err EXCEPT ![h] = "insertMany"]
            /\ UNCHANGED okOps
       ELSE /\ Returned(h, "insertMany")
            /\ UNCHANGED err
    /\ Respond(h, 200)
    /\ UNCHANGED <<Players, Sessions, conn, clock, games, failures>>
    /\ UNCHANGED sessionsResponse

InsertManyFail(h) ==
    /\ pc[h] = "insertMany"
    /\ Swallow(h, "insertMany")
    /\ UNCHANGED <<store, conn, clock, games, okOps>>
    /\ UNCHANGED sessionsResponse

\* GET /api/sessions: await Sessions.find({}).sort({createdAt: -1})
\* .limit(50).toArray() returns and the documents are sent.
ListSessions(ties) ==
    /\ sessionsResponse.status = 0
    /\ sessionsResponse' =
          [status |-> 200,
           body |-> Limit(SortByCreatedAt(Sessions, ties), SessionLimit)]
    /\ UNCHANGED <<store, conn, clock, games, failures, pc, req, player,
                   client, now, leaderboardData, status, responses, okOps,
                   err>>

\* The query throws: caught, 500 is sent.
ListSessionsFail ==
    /\ sessionsResponse.status = 0
    /\ failures < MaxFailures
    /\ failures' = failures + 1
    /\ sessionsResponse' = [status |-> 500, body |-> <<>>]
    /\ UNCHANGED <<store, conn, clock, games, pc, req, player, client, now,
                   leaderboardData, status, responses, okOps, err>>

\* ------------------------------------------------------- specifications
\* A request with a body of B, or with another method.
RequestOf(h, B) ==
    \/ \E b \in B : Arrive(h, "POST", b)
    \/ \E m \in Methods \ {"POST"} : Arrive(h, m, NoBody)

Request(h) == RequestOf(h, Bodies)

\* The bodies of interleaved requests: result win or loss and a positive
\* amount, or fields missing.
WellFormedBodies ==
    {b \in Bodies : b.result \in {"", "win", "loss"} /\ b.amount >= 0}

Step(h) ==
    \/ Handler(h)
    \/ ConnectOk(h) \/ ConnectFail(h)
    \/ FindOneOk(h) \/ FindOneFail(h)
    \/ InsertOneOk(h) \/ InsertOneFail(h)
    \/ UpdateOneOk(h) \/ UpdateOneFail(h)
    \/ InsertSessionOk(h) \/ InsertSessionFail(h)
    \/ FindOk(h) \/ FindFail(h)
    \/ DeleteManyOk(h) \/ DeleteManyFail(h)
    \/ InsertManyOk(h) \/ InsertManyFail(h)

\* The invocations that began before h: invocations are named in the order
\* their requests arrive.
Earlier(h) == IF h = "h2" THEN {"h1"} ELSE {}

\* Requests are handled independently and interleave at their awaits; each
\* handler invocation serves one request.
Next ==
    \E h \in Handlers :
        \/ /\ pc[h] = "idle"
           /\ \A g \in Earlier(h) : pc[g] # "idle"
           /\ RequestOf(h, WellFormedBodies)
        \/ Step(h)

Spec == Init /\ [][Next]_vars

\* Submissions processed one at a time: the next request arrives only after
\* the previous one was answered.
NextSeq ==
    \/ Request("h1")
    \/ Step("h1")

SpecSeq == Init /\ [][NextSeq]_vars

\* The bodies of the submissions of one player that overlap.
OverlapBodies ==
    {b \in Bodies : /\ b.playerName = "Alice" /\ b.gameType = "holdem"
                    /\ b.result \in {"win", "loss"} /\ b.amount = 1}

\* A request of the overlapping submissions, one more than MaxGames of them.
RequestOverlap(h) ==
    \/ \E b \in OverlapBodies : ArriveWithin(h, "POST", b, MaxGames + 1)
    \/ \E m \in Methods \ {"POST"} :
          ArriveWithin(h, m, NoBody, MaxGames + 1)

\* One invocation stays in flight while a second connection of the client
\* sends its requests one after the other.
NextOverlap ==
    \/ pc["h2"] = "idle" /\ pc["h1"] # "idle" /\ RequestOverlap("h2")
    \/ RequestOverlap("h1")
    \/ \E h \in Handlers : Step(h)

SpecOverlap == Init /\ [][NextOverlap]_vars


\* The body of the submissions that built the session logs below.
LoggedBody ==
    [playerName |-> "Alice", result |-> "win", amount |-> 1,
     gameType |-> "holdem"]

\* The Session of the i-th submission of a log of n. Submissions take their
\* `now` in the order 1..n and insert their Session in the order of the log;
\* at position k > 0 two of them are irregular: with "tie" the k-th and the
\* one after it took the same `now`, with "swap" they inserted their
\* Sessions in the other order.
LoggedAt(i, k, kind) ==
    CASE k > 0 /\ kind = "tie" /\ i = k + 1 -> k
      [] k > 0 /\ kind = "swap" /\ i = k -> k + 1
      [] k > 0 /\ kind = "swap" /\ i = k + 1 -> k
      [] OTHER -> i

SessionLog(n, k, kind) ==
    [i \in 1..n |->
        [playerName |-> LoggedBody.playerName,
         playerId |-> 1,
         result |-> LoggedBody.result,
         amount |-> GameAmount(LoggedBody),
         gameType |-> LoggedBody.gameType,
         createdAt |-> LoggedAt(i, k, kind)]]

\* The Player record after n submissions of LoggedBody.
RECURSIVE PlayedTimes(_, _)
PlayedTimes(p, n) ==
    IF n = 0 THEN p
    ELSE PlayedTimes(SetFields(p, UpdateData(p, LoggedBody)), n - 1)

\* The store after n submissions of one player have been answered, no
\* request being in flight.
InitSessions ==
    \E n \in 0..MaxSessions, k \in 0..MaxSessions, kind \in {"tie", "swap"} :
        /\ k < n
        /\ k = 0 => kind = "tie"
        /\ Sessions = SessionLog(n, k, kind)
        /\ Players = IF n = 0 THEN <<>>
                     ELSE <<PlayedTimes(NewPlayer("Alice", 1), n)>>
        /\ Leaderboard = Materialize(Players)
        /\ cachedClient = (IF n = 0 THEN 0 ELSE 1)
        /\ cachedDb = cachedClient
        /\ clients = cachedClient
        /\ clock = n
        /\ games = n
        /\ failures = 0
        /\ pc = [h \in Handlers |-> "idle"]
        /\ req = [h \in Handlers |-> NoRequest]
        /\ player = [h \in Handlers |-> NoPlayer]
        /\ client = [h \in Handlers |-> 0]
        /\ now = [h \in Handlers |-> 0]
        /\ leaderboardData = [h \in Handlers |-> <<>>]
        /\ status = [h \in Handlers |-> 0]
        /\ responses = [h \in Handlers |-> 0]
        /\ okOps = [h \in Handlers |-> {}]
        /\ err = [h \in Handlers |-> "none"]
        /\ sessionsResponse = NoSessionsResponse

\* One listing of the recent sessions of a store.
NextSessions ==
    \/ \E ties \in BOOLEAN : ListSessions(ties)
    \/ ListSessionsFail

SpecSessions == InitSessions /\ [][NextSessions]_vars


\* Every store operation eventually returns or fails, and the event loop
\* runs every continuation that is ready: no invocation waits for ever.
Fairness == \A h \in Handlers : WF_vars(Step(h))

\* The bodies of the requests whose answers are awaited: one name, one
\* amount, or fields missing.
LiveBodies ==
    {b \in WellFormedBodies : b.playerName # "Bob" /\ b.amount <= 1}

NextLive ==
    \E h \in Handlers :
        \/ /\ pc[h] = "idle"
           /\ \A g \in Earlier(h) : pc[g] # "idle"
           /\ RequestOf(h, LiveBodies)
        \/ Step(h)

SpecLive == Init /\ [][NextLive]_vars /\ Fairness


\* ------------------------------------------------------------ properties
WorkflowOps == {"connect", "findOne", "insertOne", "updateOne",
                "insertSession"}
MaterializerOps == {"find", "deleteMany", "insertMany"}

Quiescent == \A h \in Handlers : ~Busy(h)

\* The fold of one submission, as the data model states it.
FoldRule(old, new, body) ==
    /\ new.id = old.id
    /\ new.name = old.name
    /\ new.gamesPlayed = old.gamesPlayed + 1
    /\ body.result = "win" =>
          /\ new.totalWinnings = old.totalWinnings + body.amount
          /\ new.totalWon = old.totalWon + body.amount
          /\ new.wins = old.wins + 1
          /\ new.biggestWin = (IF old.biggestWin >= body.amount
                               THEN old.biggestWin ELSE body.amount)
          /\ new.losses = old.losses
          /\ new.totalLost = old.totalLost
    /\ body.result = "loss" =>
          /\ new.totalWinnings = old.totalWinnings - body.amount
          /\ new.totalLost = old.totalLost + body.amount
          /\ new.losses = old.losses + 1
          /\ new.wins = old.wins
          /\ new.totalWon = old.totalWon
          /\ new.biggestWin = old.biggestWin

AllZero(p) ==
    /\ p.totalWinnings = 0 /\ p.gamesPlayed = 0 /\ p.wins = 0
    /\ p.losses = 0 /\ p.biggestWin = 0 /\ p.totalWon = 0 /\ p.totalLost = 0

\* C1: with submissions processed one at a time, the Player update of a
\* submission changes the stored record of that player by the fold rule
\* (gamesPlayed + 1; win: totalWinnings, totalWon + amount, wins + 1,
\* biggestWin = max, losses and totalLost kept; loss: totalWinnings - amount,
\* totalLost + amount, losses + 1, wins, totalWon and biggestWin kept), every
\* other record is left alone, and a name not yet in the store is first
\* inserted as an all-zero record.
C1_FoldRule ==
    [][\A h \in Handlers :
        /\ (pc[h] = "updateOne" /\ pc'[h] = "insertSession") =>
              /\ Len(Players') = Len(Players)
              /\ \A i \in 1..Len(Players) :
                    IF Players[i].name = req[h].body.playerName
                    THEN FoldRule(Players[i], Players'[i], req[h].body)
                    ELSE Players'[i] = Players[i]
        /\ (pc[h] = "insertOne" /\ pc'[h] = "updateOne") =>
              /\ \A i \in 1..Len(Players) :
                    Players[i].name # req[h].body.playerName
              /\ Len(Players') = Len(Players) + 1
              /\ SubSeq(Players', 1, Len(Players)) = Players
              /\ Players'[Len(Players')].name = req[h].body.playerName
              /\ AllZero(Players'[Len(Players')])
        /\ (pc[h] = "findOne" /\ pc'[h] = "updateOne") =>
              \E i \in 1..Len(Players) :
                    Players[i].name = req[h].body.playerName
      ]_vars

\* C1 witness: a win was folded into a record that already held a bigger win.
C1_Witness ==
    \E h \in Handlers :
        /\ pc[h] = "insertSession"
        /\ req[h].body.result = "win"
        /\ player[h].gamesPlayed >= 1
        /\ player[h].biggestWin > req[h].body.amount
        /\ req[h].body.amount > 0

\* C2: every persisted Player record has totalWinnings = totalWon - totalLost
\* in every reachable state, interleaved submissions included.
C2_WinningsBalance ==
    \A i \in 1..Len(Players) :
        Players[i].totalWinnings = Players[i].totalWon - Players[i].totalLost

\* C3: with submissions processed one after another, every Player record has
\* wins + losses = gamesPlayed after every submission (and in between).
C3_WinsPlusLosses ==
    \A i \in 1..Len(Players) :
        Players[i].wins + Players[i].losses = Players[i].gamesPlayed

\* C3 witness: a record with one win and one loss folded in, no submission
\* in flight.
C3_Witness ==
    /\ Quiescent
    /\ \E i \in 1..Len(Players) :
          /\ Players[i].wins >= 1
          /\ Players[i].losses >= 1
          /\ Players[i].gamesPlayed = 2

\* The amounts of the win submissions recorded for a player.
WinAmounts(id) ==
    {Sessions[i].amount : i \in {j \in 1..Len(Sessions) :
        Sessions[j].playerId = id /\ Sessions[j].result = "win"}}

MaxOf(S) == IF S = {} THEN 0 ELSE CHOOSE m \in S : \A x \in S : x <= m

\* C4: with submissions processed one at a time and no store failure, after
\* every completed submission biggestWin of a player equals the maximum
\* amount over the win submissions recorded for that player (0 if none).
C4_BiggestWinIsMax ==
    (Quiescent /\ failures = 0) =>
        \A i \in 1..Len(Players) :
            Players[i].biggestWin = MaxOf(WinAmounts(Players[i].id))

\* C5: a player's persisted biggestWin never decreases from one store state
\* to the next, interleaved win submissions included.
C5_BiggestWinMonotone ==
    [][\A i \in 1..Len(Players) :
          Players'[i].biggestWin >= Players[i].biggestWin]_vars

\* A body with playerName, result or gameType missing or empty, or amount
\* missing or zero.
FieldMissing(body) ==
    ~ (/\ body.playerName # ""
       /\ body.result # ""
       /\ body.amount # 0
       /\ body.gameType # "")

\* C6: a POST whose body misses a field is answered 400 by the handler's
\* first step, which performs no store operation and leaves Players,
\* Sessions and Leaderboard as they were; the handler is then finished.
C6_RejectsMissingField ==
    [][\A h \in Handlers :
        (/\ pc[h] = "received"
         /\ pc'[h] # "received"
         /\ req[h].method = "POST"
         /\ FieldMissing(req[h].body)) =>
            /\ status'[h] = 400
            /\ responses'[h] = 1
            /\ pc'[h] = "done"
            /\ okOps'[h] = {}
            /\ Players' = Players
            /\ Sessions' = Sessions
            /\ Leaderboard' = Leaderboard
            /\ clients' = clients
      ]_vars

\* C6 witness: a request was answered 400 while the store holds data.
C6_Witness ==
    \E h \in Handlers :
        /\ pc[h] = "done"
        /\ status[h] = 400
        /\ okOps[h] = {}
        /\ Len(Players) > 0
        /\ Len(Leaderboard) > 0

\* C7: a POST whose result is present but neither 'win' nor 'loss' is
\* answered 400 by the handler's first step and mutates nothing.
C7_RejectsUnknownResult ==
    [][\A h \in Handlers :
        (/\ pc[h] = "received"
         /\ pc'[h] # "received"
         /\ req[h].method = "POST"
         /\ req[h].body.result \notin {"", "win", "loss"}) =>
            /\ status'[h] = 400
            /\ pc'[h] = "done"
            /\ store' = store
      ]_vars

\* C8: a failing store operation of the materializer (find, deleteMany,
\* insertMany) leaves Players and Sessions as they are, with the request's
\* session in Sessions, and the request is answered 200, once.
C8_MaterializerFailureSwallowed ==
    [][\A h \in Handlers :
        (/\ pc[h] \in MaterializerOps
         /\ pc'[h] # pc[h]
         /\ err'[h] \in MaterializerOps) =>
            /\ status'[h] = 200
            /\ responses'[h] = 1
            /\ pc'[h] = "done"
            /\ {"updateOne", "insertSession"} \subseteq okOps'[h]
            /\ Players' = Players
            /\ Sessions' = Sessions
            /\ \E i \in 1..Len(Sessions') : Sessions'[i] = Session(h)
      ]_vars

\* C8 witness: the leaderboard write failed after the clear and the request
\* was answered 200.
C8_Witness ==
    \E h \in Handlers :
        /\ pc[h] = "done"
        /\ err[h] = "insertMany"
        /\ "deleteMany" \in okOps[h]
        /\ status[h] = 200
        /\ Len(Sessions) > 0

\* The operations that come after op in the workflow.
LaterOps(op) ==
    CASE op = "connect" -> {"findOne", "insertOne", "updateOne",
                            "insertSession"} \cup MaterializerOps
      [] op = "findOne" -> {"insertOne", "updateOne", "insertSession"}
                            \cup MaterializerOps
      [] op = "insertOne" -> {"updateOne", "insertSession"}
                            \cup MaterializerOps
      [] op = "updateOne" -> {"insertSession"} \cup MaterializerOps
      [] op = "insertSession" -> MaterializerOps
      [] OTHER -> {}

\* C9: when a POST is answered, 200 is sent only if the connection was
\* obtained and findOne, insertOne (for a new name), updateOne and the
\* session insert all returned; if one of them failed the answer is 500,
\* the failing step changed nothing in the store, and no later operation of
\* the workflow was executed.
C9_SuccessOnlyAfterCommit ==
    [][\A h \in Handlers :
        (/\ req[h].method = "POST"
         /\ status[h] = 0
         /\ status'[h] # 0) =>
            /\ pc'[h] = "done"
            /\ status'[h] = 200 =>
                  /\ err'[h] \notin WorkflowOps
                  /\ {"findOne", "updateOne", "insertSession"}
                        \subseteq okOps'[h]
                  /\ cachedClient # 0 /\ cachedDb # 0
                  /\ \E i \in 1..Len(Sessions') : Sessions'[i] = Session(h)
                  /\ \E i \in 1..Len(Players') :
                        Players'[i].id = player[h].id
            /\ err'[h] \in WorkflowOps =>
                  /\ status'[h] = 500
                  /\ store' = store
                  /\ okOps'[h] \cap ({err'[h]} \cup LaterOps(err'[h])) = {}
      ]_vars

\* C9 witness: the session insert failed after the Player update and the
\* request was answered 500.
C9_Witness ==
    \E h \in Handlers :
        /\ pc[h] = "done"
        /\ status[h] = 500
        /\ err[h] = "insertSession"
        /\ "updateOne" \in okOps[h]

\* C10: whenever no materialization is between its clear and its write, the
\* ranks of the persisted Leaderboard entries are exactly 1..N, each once.
C10_RanksDense ==
    (\A h \in Handlers : pc[h] # "insertMany") =>
        /\ {Leaderboard[i].rank : i \in 1..Len(Leaderboard)}
              = 1..Len(Leaderboard)
        /\ \A i, j \in 1..Len(Leaderboard) :
              Leaderboard[i].rank = Leaderboard[j].rank => i = j


\* The handlers that hold the entries of a materialization.
Materializing == {h \in Handlers : pc[h] \in {"deleteMany", "insertMany"}}

\* Position of the record with the given id in a collection.
PosIn(coll, id) == CHOOSE i \in 1..Len(coll) : coll[i].id = id

\* C11: the entries a materialization writes are the loaded players, one
\* entry each, in descending order of totalWinnings by rank; entries with
\* equal totalWinnings keep the order in which the players were loaded.
C11_SortedDescending ==
    \A h \in Materializing :
        LET d == leaderboardData[h]
        IN  /\ Len(d) = Len(Players)
            /\ \A k \in 1..Len(Players) :
                  \E i \in 1..Len(d) : d[i].id = Players[k].id
            /\ \A i, j \in 1..Len(d) :
                  d[i].rank < d[j].rank =>
                      /\ i < j
                      /\ d[i].totalWinnings >= d[j].totalWinnings
                      /\ d[i].totalWinnings = d[j].totalWinnings =>
                            PosIn(Players, d[i].id) < PosIn(Players, d[j].id)

\* C11 witness: the player loaded second is written first.
C11_Witness ==
    \E h \in Materializing :
        /\ Len(leaderboardData[h]) = 2
        /\ PosIn(Players, leaderboardData[h][1].id) = 2
        /\ leaderboardData[h][1].totalWinnings
              > leaderboardData[h][2].totalWinnings

\* C12: every step leaves the persisted leaderboard as it was or puts the
\* complete entries of a materialization in its place, so that no read sees
\* an empty or partly written leaderboard.
C12_AtomicReplacement ==
    [][\/ Leaderboard' = Leaderboard
       \/ \E h \in Materializing : Leaderboard' = leaderboardData[h]]_vars

\* C13: no two records of the Players collection have the same name.
C13_UniqueNames ==
    \A i, j \in 1..Len(Players) :
        Players[i].name = Players[j].name => i = j

\* C19: as long as no store operation has failed, at most one store client
\* has been created, also when connectToDatabase is called by several
\* requests before the first connection attempt has completed.
C19_SingleClient == failures = 0 => clients <= 1

\* C20: once every submission has completed and no store operation failed,
\* the persisted leaderboard has exactly one entry per Player record, with
\* the current totalWinnings, gamesPlayed, wins and totalWon of that player,
\* ranked by totalWinnings descending.
C20_QuiescentConsistency ==
    (Quiescent /\ failures = 0 /\ \A h \in Handlers : err[h] = "none") =>
        /\ Len(Leaderboard) = Len(Players)
        /\ \A p \in Range(Players) :
              \E e \in Range(Leaderboard) :
                  /\ e.id = p.id
                  /\ e.totalWinnings = p.totalWinnings
                  /\ e.gamesPlayed = p.gamesPlayed
                  /\ e.wins = p.wins
                  /\ e.totalWon = p.totalWon
        /\ \A e1, e2 \in Range(Leaderboard) :
              e1.rank < e2.rank => e1.totalWinnings >= e2.totalWinnings

\* The value is the quotient n / d of d # 0.
IsQuotient(value, n, d) == value.den > 0 /\ value.num * d = n * value.den

\* C14: for every Player record a materialization loads, the entry it writes
\* has winRate = wins / gamesPlayed * 100 when gamesPlayed > 0 and exactly 0
\* when gamesPlayed = 0, and avgWin = totalWon / wins when wins > 0 and
\* exactly 0 when wins = 0; no record is skipped.
C14_RatesDefined ==
    \A h \in Materializing :
        /\ Len(leaderboardData[h]) = Len(Players)
        /\ \A p \in Range(Players) :
              \E e \in Range(leaderboardData[h]) :
                  /\ e.id = p.id
                  /\ IF p.gamesPlayed > 0
                     THEN IsQuotient(e.winRate, p.wins * 100, p.gamesPlayed)
                     ELSE e.winRate.num = 0
                  /\ IF p.wins > 0
                     THEN IsQuotient(e.avgWin, p.totalWon, p.wins)
                     ELSE e.avgWin.num = 0

\* C14 witness: a materialization holds the entry of a record that has no
\* game and the entry of a record that has a win.
C14_Witness ==
    \E h \in Materializing :
        \E e1, e2 \in Range(leaderboardData[h]) :
            /\ e1.gamesPlayed = 0 /\ e1.wins = 0
            /\ e1.winRate.num = 0 /\ e1.avgWin.num = 0
            /\ e2.wins > 0 /\ e2.winRate.num > 0

\* C18: when two submissions in flight hold the same read of a Player
\* record and one has already written its update, the update of the other
\* leaves gamesPlayed only 1 higher than the value both read: the first
\* write is overwritten.
C18_LostUpdate ==
    [][\A h, g \in Handlers :
          (/\ h # g
           /\ pc[h] = "updateOne" /\ pc'[h] = "insertSession"
           /\ player[g] = player[h]
           /\ "updateOne" \in okOps[g]) =>
              PlayerById(Players', player[h].id).gamesPlayed
                  = player[h].gamesPlayed + 1]_vars

\* C18 witness: both submissions were answered 200 with no operation failed,
\* two Sessions of the same player were appended, and the only Player record
\* has gamesPlayed 1.
C18_Witness ==
    /\ \A h \in Handlers : status[h] = 200 /\ pc[h] = "done"
    /\ failures = 0
    /\ Len(Sessions) = 2
    /\ Sessions[1].playerId = Sessions[2].playerId
    /\ Len(Players) = 1
    /\ Players[1].gamesPlayed = 1

\* C16: the Session log is append-only. A step that changes Sessions appends
\* exactly one Session, the first of its submission, whose amount is +amount
\* for a win and -amount for a loss and whose playerId is the id of the
\* Player record the submission has updated; a submission is answered 200
\* only after its Session was appended.
C16_SessionLogAppendOnly ==
    [][/\ Sessions' # Sessions =>
            \E h \in Handlers :
                /\ pc[h] = "insertSession"
                /\ "insertSession" \notin okOps[h]
                /\ "updateOne" \in okOps[h]
                /\ Len(Sessions') = Len(Sessions) + 1
                /\ SubSeq(Sessions', 1, Len(Sessions)) = Sessions
                /\ LET s == Sessions'[Len(Sessions')]
                   IN  /\ s.playerId = player[h].id
                       /\ \E p \in Range(Players) :
                             p.id = s.playerId /\ p.name = s.playerName
                       /\ req[h].body.result = "win" =>
                             s.amount = req[h].body.amount
                       /\ req[h].body.result = "loss" =>
                             s.amount = 0 - req[h].body.amount
       /\ \A h \in Handlers :
            (req[h].method = "POST" /\ status'[h] = 200 /\ pc'[h] = "done")
                => "insertSession" \in okOps[h]]_vars

\* C16 witness: two submissions were answered 200 and the log holds the
\* Session of a win with a positive amount and the Session of a loss with a
\* negative amount.
C16_Witness ==
    /\ \A h \in Handlers : status[h] = 200 /\ "insertSession" \in okOps[h]
    /\ Len(Sessions) = 2
    /\ \E i, j \in 1..2 :
          /\ Sessions[i].result = "win" /\ Sessions[i].amount > 0
          /\ Sessions[j].result = "loss" /\ Sessions[j].amount < 0

\* The collection holds one entry per Player record, each with the values
\* of its record: the entries written by a materialization of these Players.
SnapshotOf(board, ps) ==
    /\ Len(board) = Len(ps)
    /\ \A p \in Range(ps) :
          \E e \in Range(board) :
              /\ e.id = p.id /\ e.name = p.name
              /\ e.totalWinnings = p.totalWinnings
              /\ e.gamesPlayed = p.gamesPlayed
              /\ e.wins = p.wins /\ e.losses = p.losses
              /\ e.biggestWin = p.biggestWin
              /\ e.totalWon = p.totalWon /\ e.totalLost = p.totalLost

\* Two sets of entries with the same player, rank, winRate and avgWin.
SameStandings(a, b) ==
    /\ Len(a) = Len(b)
    /\ \A e \in Range(a) :
          \E f \in Range(b) :
              /\ f.id = e.id /\ f.name = e.name /\ f.rank = e.rank
              /\ f.winRate = e.winRate /\ f.avgWin = e.avgWin

\* C15: a materialization that runs after a completed one, with the Player
\* records as the completed one left them in the Leaderboard, computes
\* entries with the same player, rank, winRate and avgWin as the entries
\* stored, and its write on the cleared collection stores exactly them.
C15_Idempotent ==
    [][\A h \in Handlers :
          /\ (/\ pc[h] = "find" /\ pc'[h] = "deleteMany"
              /\ Leaderboard # <<>>
              /\ SnapshotOf(Leaderboard, Players)) =>
                 SameStandings(leaderboardData'[h], Leaderboard)
          /\ (/\ pc[h] = "insertMany" /\ pc'[h] = "done"
              /\ Leaderboard = <<>>
              /\ "insertMany" \in okOps'[h]) =>
                 Leaderboard' = leaderboardData[h]]_vars

\* C15 witness: one materialization has completed over two Player records
\* and the next one, run over the same records, holds its entries.
C15_Witness ==
    \E h, g \in Handlers :
        /\ pc[h] = "deleteMany"
        /\ pc[g] = "done" /\ "insertMany" \in okOps[g]
        /\ Len(Players) = 2
        /\ SnapshotOf(Leaderboard, Players)
        /\ SameStandings(leaderboardData[h], Leaderboard)

\* The number of documents of a sequence created at time t.
CreatedAt(seq, t) == Cardinality({i \in 1..Len(seq) : seq[i].createdAt = t})

\* C17: a listing of the recent sessions returns min(50, number of Sessions)
\* documents of the log, ordered by createdAt descending, and no Session
\* left out is newer than a Session returned.
C17_RecentSessions ==
    sessionsResponse.status = 200 =>
        LET r == sessionsResponse.body
            times == {Sessions[i].createdAt : i \in 1..Len(Sessions)}
        IN  /\ Len(r) = (IF Len(Sessions) < 50 THEN Len(Sessions) ELSE 50)
            /\ \A i, j \in 1..Len(r) :
                  i < j => r[i].createdAt >= r[j].createdAt
            /\ \A i \in 1..Len(r) : r[i] \in Range(Sessions)
            /\ \A t \in times :
                  /\ CreatedAt(r, t) <= CreatedAt(Sessions, t)
                  /\ (\E i \in 1..Len(r) : r[i].createdAt < t) =>
                        CreatedAt(r, t) = CreatedAt(Sessions, t)

\* C17 witness: a log of more than 50 Sessions was listed, 50 were returned
\* and the oldest of the log is not among them.
C17_Witness ==
    /\ sessionsResponse.status = 200
    /\ Len(Sessions) > 50
    /\ Len(sessionsResponse.body) = 50
    /\ \A i \in 1..50 : sessionsResponse.body[i].createdAt > 1

\* C22: every Player record has wins <= gamesPlayed and losses <=
\* gamesPlayed, and every Leaderboard entry has 0 <= winRate <= 100, also
\* when submissions for one player interleave.
C22_WinsWithinGames ==
    /\ \A p \in Range(Players) :
          p.wins <= p.gamesPlayed /\ p.losses <= p.gamesPlayed
    /\ \A e \in Range(Leaderboard) :
          0 <= e.winRate.num /\ e.winRate.num <= 100 * e.winRate.den

\* C21: a step changes a stored Player record only as the updateOne of a
\* submission for that record's name, selected by the id the submission
\* holds, and adds a record only as the insertOne of a submission for its
\* name; every record of another name and every Session already stored is
\* kept, whatever the outcome of the submission.
C21_Frame ==
    [][/\ Len(Sessions') >= Len(Sessions)
       /\ SubSeq(Sessions', 1, Len(Sessions)) = Sessions
       /\ Len(Players') >= Len(Players)
       /\ \A i \in 1..Len(Players) :
             Players'[i] # Players[i] =>
                 /\ Players'[i].id = Players[i].id
                 /\ Players'[i].name = Players[i].name
                 /\ \E h \in Handlers :
                       /\ pc[h] = "updateOne" /\ pc'[h] = "insertSession"
                       /\ req[h].body.playerName = Players[i].name
                       /\ player[h].id = Players[i].id
       /\ \A i \in (Len(Players) + 1)..Len(Players') :
             \E h \in Handlers :
                 /\ pc[h] = "insertOne" /\ pc'[h] = "updateOne"
                 /\ Players'[i].name = req[h].body.playerName]_vars

\* C21 witness: the record of one name has been updated by a submission that
\* is still in flight, next to the record of another name and a Session
\* stored before.
C21_Witness ==
    \E h \in Handlers :
        /\ pc[h] = "insertSession"
        /\ Len(Players) = 2
        /\ Players[1].name # Players[2].name
        /\ Players[1].gamesPlayed = 1 /\ Players[2].gamesPlayed = 1
        /\ Len(Sessions) = 1

\* The sum of the amounts of the Sessions of a log that reference a player.
RECURSIVE SumOfAmounts(_, _)
SumOfAmounts(log, id) ==
    IF log = <<>> THEN 0
    ELSE (IF Head(log).playerId = id THEN Head(log).amount ELSE 0)
             + SumOfAmounts(Tail(log), id)

\* C23: with submissions processed one at a time and no store operation
\* failed, after each completed submission the gamesPlayed of every player
\* is the number of Sessions that reference the player and the player's
\* totalWinnings is the sum of the amounts of those Sessions.
C23_SessionsMatchPlayers ==
    (Quiescent /\ failures = 0) =>
        \A p \in Range(Players) :
            /\ p.gamesPlayed =
                  Cardinality({i \in 1..Len(Sessions) :
                                  Sessions[i].playerId = p.id})
            /\ p.totalWinnings = SumOfAmounts(Sessions, p.id)

\* C23 witness: two submissions of one player have completed with no
\* failure, a win and a loss of different amounts.
C23_Witness ==
    /\ Quiescent /\ failures = 0
    /\ Len(Players) = 1 /\ Len(Sessions) = 2
    /\ Players[1].gamesPlayed = 2
    /\ Players[1].wins = 1 /\ Players[1].losses = 1
    /\ Players[1].totalWinnings # 0

\* The status a request is due when its handler answers from position at.
DueStatus(r, at, failed) ==
    CASE r.method = "OPTIONS" -> 200
      [] r.method # "POST" -> 405
      [] FieldMissing(r.body) -> 400
      [] at \in WorkflowOps /\ failed -> 500
      [] OTHER -> 200

\* C24: every request handed to the handler is eventually answered, and
\* answered exactly once: 200 for OPTIONS, 405 for another method than POST
\* with no store access, 400 for a missing field, 500 for a store failure in
\* the workflow and 200 otherwise, a failed materialization included.
C24_ExactlyOneResponse ==
    /\ \A h \in Handlers : (pc[h] = "received") ~> (pc[h] = "done")
    /\ [](\A h \in Handlers :
             /\ Busy(h) => responses[h] = 0
             /\ pc[h] = "done" => responses[h] = 1)
    /\ [][\A h \in Handlers :
             (pc[h] # "done" /\ pc'[h] = "done") =>
                 /\ status'[h] =
                       DueStatus(req[h], pc[h], failures' # failures)
                 /\ pc[h] \in WorkflowOps => failures' # failures
                 /\ req[h].method # "POST" => okOps'[h] = {}]_vars

\* C24 witness: one request was answered 500 after a store failure in the
\* workflow and another 200, each with one response.
C24_Witness ==
    /\ \A h \in Handlers : pc[h] = "done" /\ responses[h] = 1
    /\ status["h1"] = 500 /\ err["h1"] \in WorkflowOps
    /\ status["h2"] = 200 /\ "insertSession" \in okOps["h2"]

====
